---- MODULE Spec2Model ----
(***************************************************************************)
(* Model of fetch_correlation_data.py: the fetch -> filter -> enrich ->    *)
(* summarize -> persist pipeline for source-mention correlation data.     *)
(*                                                                         *)
(* JSON / Python values are tagged records:                                *)
(*   None  [t |-> "null"]        bool  [t |-> "bool", b |-> TRUE]          *)
(*   int   [t |-> "num", n |-> 7]  str   [t |-> "str", s |-> "abc"]        *)
(*   list  [t |-> "list", items |-> <<...>>]                               *)
(*   dict  [t |-> "dict", kv |-> function from its keys to values]         *)
(* Python floats are IEEE-754 doubles: [m, e] stands for m * 2^e, with m a  *)
(* 53-bit natural number held in limbs, rounded to nearest, ties to even.   *)
(***************************************************************************)
EXTENDS Integers, Sequences, FiniteSets, TLC

VARIABLES
    pc,                      \* position of main() (or of the unit driver)
    API_KEY,                 \* module global read from the environment (line 33)
    requests,                \* number of urlopen calls issued in this run
    fetch_kind,              \* how the fetch of this run went (ghost, for the claims)
    data,                    \* fetch's local: the return value of api_call (line 125)
    queries_execution_data,  \* main's local: the return value of the fetch
    analyzed_data,           \* main's local: the return value of analyze_data
    summary,                 \* main's local: the return value of generate_summary_stats
    files,                   \* the three artifacts of this run on disk
    executed,                \* stages main() has called in this run
    fault,                   \* exception that escaped main(), or "none"
    outcome,                 \* how main() ended: "running", "no_data", "complete", "fault"
    previous_run             \* fetch_kind and outcome of the run before this one

vars == <<pc, API_KEY, requests, fetch_kind, data, queries_execution_data, analyzed_data,
          summary, files, executed, fault, outcome, previous_run>>

----------------------------------------------------------------------------
(* Bounds *)

\* longest citation list placed in a payload
MaxResources == 2
\* most records in one API response / one call of analyze_data
MaxRecords == 3

----------------------------------------------------------------------------
(* Python values *)

JNull == [t |-> "null"]
JBool(b) == [t |-> "bool", b |-> b]
JNum(n) == [t |-> "num", n |-> n]
JStr(s) == [t |-> "str", s |-> s]
JList(xs) == [t |-> "list", items |-> xs]
JDict(f) == [t |-> "dict", kv |-> f]
EmptyKV == [k \in {} |-> JNull]

\* Python truth value of an object (used by `if not x`, `if x`, bool(x))
Truthy(v) ==
    CASE v.t = "null" -> FALSE
      [] v.t = "bool" -> v.b
      [] v.t = "num"  -> v.n # 0
      [] v.t = "str"  -> v.s # ""
      [] v.t = "list" -> v.items # << >>
      [] v.t = "dict" -> DOMAIN v.kv # {}

\* dict.get(key, default)
Get(d, key, default) == IF key \in DOMAIN d.kv THEN d.kv[key] ELSE default

----------------------------------------------------------------------------
(* Natural numbers of any size: little-endian limbs, no leading zero limb *)

LimbBase == 2^20
\* largest multiplier or divisor of the small-operand operations below
SmallMax == 2^10

RECURSIVE BigFromInt(_)
BigFromInt(n) ==
    IF n = 0 THEN << >> ELSE <<n % LimbBase>> \o BigFromInt(n \div LimbBase)

RECURSIVE BigTrim(_)
BigTrim(x) ==
    IF x # << >> /\ x[Len(x)] = 0 THEN BigTrim(SubSeq(x, 1, Len(x) - 1)) ELSE x

RECURSIVE BigAddC(_, _, _)
BigAddC(x, y, c) ==
    IF x = << >> /\ y = << >>
    THEN BigFromInt(c)
    ELSE LET a == IF x = << >> THEN 0 ELSE Head(x)
             b == IF y = << >> THEN 0 ELSE Head(y)
             t == a + b + c
         IN <<t % LimbBase>>
              \o BigAddC(IF x = << >> THEN x ELSE Tail(x),
                         IF y = << >> THEN y ELSE Tail(y), t \div LimbBase)

BigAdd(x, y) == BigAddC(x, y, 0)

\* x * k + c for 0 < k <= SmallMax
RECURSIVE BigMulC(_, _, _)
BigMulC(x, k, c) ==
    IF x = << >>
    THEN BigFromInt(c)
    ELSE LET t == Head(x) * k + c
         IN <<t % LimbBase>> \o BigMulC(Tail(x), k, t \div LimbBase)

BigMulSmall(x, k) == BigMulC(x, k, 0)

\* quotient limbs and remainder of (rem * LimbBase^Len(x) + x) by k <= SmallMax
RECURSIVE BigDivC(_, _, _)
BigDivC(x, k, rem) ==
    IF x = << >>
    THEN [q |-> << >>, r |-> rem]
    ELSE LET cur == rem * LimbBase + x[Len(x)]
             lower == BigDivC(SubSeq(x, 1, Len(x) - 1), k, cur % k)
         IN [q |-> lower.q \o <<cur \div k>>, r |-> lower.r]

BigDivSmall(x, k) ==
    LET d == BigDivC(x, k, 0) IN [q |-> BigTrim(d.q), r |-> d.r]

RECURSIVE SmallBitLen(_)
SmallBitLen(n) == IF n = 0 THEN 0 ELSE 1 + SmallBitLen(n \div 2)

BigBitLen(x) ==
    IF x = << >> THEN 0 ELSE 20 * (Len(x) - 1) + SmallBitLen(x[Len(x)])

BigIsOdd(x) == x # << >> /\ x[1] % 2 = 1

\* x * 2^k
RECURSIVE BigShl(_, _)
BigShl(x, k) ==
    IF k = 0 THEN x
    ELSE IF k >= 10 THEN BigShl(BigMulSmall(x, SmallMax), k - 10)
    ELSE BigMulSmall(x, 2^k)

\* x \div 2^k, and whether a nonzero bit was dropped
RECURSIVE BigShr(_, _)
BigShr(x, k) ==
    IF k = 0 THEN [q |-> x, sticky |-> FALSE]
    ELSE LET step == IF k >= 10 THEN 10 ELSE k
             d == BigDivSmall(x, 2^step)
             rest == BigShr(d.q, k - step)
         IN [q |-> rest.q, sticky |-> rest.sticky \/ d.r # 0]

\* x <= y
RECURSIVE BigLE(_, _)
BigLE(x, y) ==
    IF Len(x) # Len(y) THEN Len(x) < Len(y)
    ELSE IF x = << >> THEN TRUE
    ELSE IF x[Len(x)] # y[Len(y)] THEN x[Len(x)] < y[Len(y)]
    ELSE BigLE(SubSeq(x, 1, Len(x) - 1), SubSeq(y, 1, Len(y) - 1))

----------------------------------------------------------------------------
(* Non-negative IEEE-754 doubles, the values of Python's float *)

\* significand width of a double
MantissaBits == 53

FloatZero == [m |-> << >>, e |-> 0]

\* the double nearest to n * 2^e (+ a nonzero tail below the last bit when
\* `sticky`), ties to even; n has more than MantissaBits bits when sticky
FloatRound(n, e, sticky) ==
    LET len == BigBitLen(n)
    IN IF n = << >> THEN FloatZero
       ELSE IF len <= MantissaBits
       THEN [m |-> BigShl(n, MantissaBits - len), e |-> e - (MantissaBits - len)]
       ELSE LET drop == len - MantissaBits
                s == BigShr(n, drop - 1)
                guard == BigIsOdd(s.q)
                q == BigDivSmall(s.q, 2).q
                up == guard /\ (sticky \/ s.sticky \/ BigIsOdd(q))
                r == IF up THEN BigAddC(q, << >>, 1) ELSE q
            IN IF BigBitLen(r) > MantissaBits
               THEN [m |-> BigDivSmall(r, 2).q, e |-> e + drop + 1]
               ELSE [m |-> r, e |-> e + drop]

\* float(n) for an int n >= 0
FloatFromInt(n) == FloatRound(BigFromInt(n), 0, FALSE)

\* a + b
FloatAdd(a, b) ==
    IF a = FloatZero THEN b
    ELSE IF b = FloatZero THEN a
    ELSE LET low == IF a.e < b.e THEN a.e ELSE b.e
         IN FloatRound(BigAdd(BigShl(a.m, a.e - low), BigShl(b.m, b.e - low)),
                       low, FALSE)

\* a * k for an int 0 < k <= SmallMax (k is converted to a float exactly)
FloatMulInt(a, k) == FloatRound(BigMulSmall(a.m, k), a.e, FALSE)

\* a / k for an int 0 < k <= SmallMax
FloatDivInt(a, k) ==
    LET d == BigDivSmall(BigShl(a.m, 12), k)
    IN FloatRound(d.q, a.e - 12, d.r # 0)

\* n / k for ints n >= 0, 0 < k <= SmallMax: true division, correctly rounded
IntTrueDiv(n, k) ==
    LET d == BigDivSmall(BigShl(BigFromInt(n), 64), k)
    IN FloatRound(d.q, -64, d.r # 0)

\* a <= b
FloatLE(a, b) ==
    IF a = FloatZero THEN TRUE
    ELSE IF b = FloatZero THEN FALSE
    ELSE IF a.e # b.e THEN a.e < b.e
    ELSE BigLE(a.m, b.m)

----------------------------------------------------------------------------
(* Citation elements and payloads the inputs are drawn from *)

\* a citation mapping with all three fields, brand mentioned
CiteMentioned ==
    JDict([Domain |-> JStr("a.com"), url |-> JStr("http://a.com/x"),
           is_customer_mentioned |-> JBool(TRUE)])
\* a citation mapping with a non-string url and no other field
CiteNumUrl == JDict([url |-> JNum(5)])
\* a citation mapping, brand not mentioned (the bare-mapping example)
CiteNotMentioned ==
    JDict([Domain |-> JStr("b.com"), url |-> JStr("http://b.com"),
           is_customer_mentioned |-> JBool(FALSE)])

\* elements a citation list may hold: two mappings and a non-mapping
Elements == {CiteMentioned, CiteNumUrl, JNum(7)}

SeqsUpTo(S, n) == UNION {[1..k -> S] : k \in 0..n}

CitationLists == SeqsUpTo(Elements, MaxResources)

\* json.loads on the JSON texts that occur in the payloads; every other text
\* of the model ("" and "not json") raises json.JSONDecodeError
json_loads(s) ==
    CASE s = "null" -> [ok |-> TRUE, v |-> JNull]
      [] s = "7" -> [ok |-> TRUE, v |-> JNum(7)]
      [] s = "\"abc\"" -> [ok |-> TRUE, v |-> JStr("abc")]
      [] s = "{}" -> [ok |-> TRUE, v |-> JDict(EmptyKV)]
      [] s = "[]" -> [ok |-> TRUE, v |-> JList(<< >>)]
      [] s = "[7]" -> [ok |-> TRUE, v |-> JList(<<JNum(7)>>)]
      [] s = "{\"url\": 5}" -> [ok |-> TRUE, v |-> CiteNumUrl]
      [] s = "{\"resources\": [{\"url\": 5}]}" ->
            [ok |-> TRUE, v |-> JDict([resources |-> JList(<<CiteNumUrl>>)])]
      [] s = "{\"resources\": 7}" ->
            [ok |-> TRUE, v |-> JDict([resources |-> JNum(7)])]
      [] OTHER -> [ok |-> FALSE, v |-> JNull]

JsonTexts ==
    {"", "not json", "null", "7", "\"abc\"", "{}", "[]", "[7]", "{\"url\": 5}",
     "{\"resources\": [{\"url\": 5}]}", "{\"resources\": 7}"}

\* every shape of the `resources` field: null, scalars, strings (JSON or not),
\* bare mappings, resources-wrapped mappings, bare sequences
Payloads ==
    {JNull, JNum(0), JNum(7), JBool(FALSE), JBool(TRUE)}
    \cup {JStr(s) : s \in JsonTexts}
    \cup {JDict(EmptyKV), CiteMentioned, CiteNotMentioned, CiteNumUrl,
          JDict([resources |-> JNum(7)]), JDict([resources |-> JNull]),
          JDict([resources |-> JStr("[7]")]),
          JDict([resources |-> JDict([url |-> JNum(5)])])}
    \cup {JList(xs) : xs \in CitationLists}
    \cup {JDict([resources |-> JList(xs)]) : xs \in CitationLists}

----------------------------------------------------------------------------
(* parse_resources, lines 75-104 *)

\* the dispatch on the decoded value, lines 94-102
dispatch_parsed(parsed) ==
    IF parsed.t = "dict"
    THEN IF "resources" \in DOMAIN parsed.kv
         THEN IF parsed.kv["resources"].t = "list"
              THEN parsed.kv["resources"].items
              ELSE << >>
         ELSE <<parsed>>
    ELSE IF parsed.t = "list" THEN parsed.items ELSE << >>

\* parse_resources with line 83 testing `is None` instead of falsiness
parse_resources_none_test(resources_data) ==
    IF resources_data.t = "null"
    THEN << >>
    ELSE IF resources_data.t = "str"
         THEN LET r == json_loads(resources_data.s)
              IN IF r.ok THEN dispatch_parsed(r.v) ELSE << >>
         ELSE dispatch_parsed(resources_data)

\* returns the Python list as a sequence; a JSONDecodeError is caught (line 103)
parse_resources(resources_data) ==
    IF ~Truthy(resources_data)
    THEN << >>
    ELSE IF resources_data.t = "str"
         THEN LET r == json_loads(resources_data.s)
              IN IF r.ok THEN dispatch_parsed(r.v) ELSE << >>
         ELSE dispatch_parsed(resources_data)

----------------------------------------------------------------------------
(* analyze_data, lines 147-223 *)

\* one entry of sources_details, lines 200-209
source_detail(resource) ==
    [url |-> Get(resource, "url", JStr("")),
     domain |-> Get(resource, "Domain", JStr("")),
     is_customer_mentioned |->
         JBool(Truthy(Get(resource, "is_customer_mentioned", JBool(FALSE))))]

\* the loop of lines 197-209: the mappings of `resources`, in order
sources_details_of(resources) ==
    LET dicts == SelectSeq(resources, LAMBDA r : r.t = "dict")
    IN [i \in 1..Len(dicts) |-> source_detail(dicts[i])]

\* the counter of lines 194-203
count_with_brand(details) ==
    Cardinality({i \in 1..Len(details) : details[i].is_customer_mentioned.b})

\* record['total_sources'], line 190
total_sources_of(resources) == Len(resources)

\* lines 215-218 with the factor 100 of line 216 forgotten
brand_mention_percentage_ratio(sources_with_brand, total_sources) ==
    IF total_sources > 0
    THEN IntTrueDiv(sources_with_brand, total_sources)
    ELSE FloatZero

\* lines 215-218
brand_mention_percentage_of(sources_with_brand, total_sources) ==
    IF total_sources > 0
    THEN FloatMulInt(IntTrueDiv(sources_with_brand, total_sources), 100)
    ELSE FloatZero

\* the body of the loop over the records, lines 161-220; the pass-through log
\* fields (lines 163-184) are copies of qe.get(...) and are left out
enrich(qe) ==
    LET resources == parse_resources(Get(qe, "resources", JNull))
        details == sources_details_of(resources)
        swb == count_with_brand(details)
        total == total_sources_of(resources)
    IN [id |-> Get(qe, "id", JNull),
        product_in_results |-> Get(qe, "product_in_results", JNum(0)),
        brand_in_response |-> Truthy(Get(qe, "product_in_results", JNum(0))),
        resources_raw |-> Get(qe, "resources", JNull),
        resources_parsed |-> resources,
        total_sources |-> total,
        sources_with_brand |-> swb,
        sources_details |-> details,
        brand_mention_percentage |-> brand_mention_percentage_of(swb, total)]

analyze_data(records) == [i \in 1..Len(records) |-> enrich(records[i])]

----------------------------------------------------------------------------
(* generate_summary_stats, lines 226-264 *)

\* sum(r[field] for r in group) over an int field: exact
RECURSIVE SumInt(_, _)
SumInt(rs, field) ==
    IF rs = << >> THEN 0 ELSE Head(rs)[field] + SumInt(Tail(rs), field)

\* sum(r[field] for r in group) over a float field: the built-in sum adds the
\* items to the running total one by one, in the order of the list
\* (CPython up to 3.11; CPython 3.12 and later compensate the rounding
\* errors of the additions, which is not modelled)
RECURSIVE SumFloat(_, _, _)
SumFloat(rs, field, acc) ==
    IF rs = << >> THEN acc
    ELSE SumFloat(Tail(rs), field, FloatAdd(acc, Head(rs)[field]))

\* sum(r[field] for r in group) / len(group), or the initial 0 (lines 246-262)
mean_int(group, field) ==
    IF group # << >>
    THEN IntTrueDiv(SumInt(group, field), Len(group))
    ELSE FloatZero

mean_float(group, field) ==
    IF group # << >>
    THEN FloatDivInt(SumFloat(group, field, FloatZero), Len(group))
    ELSE FloatZero

\* line 233 counting product_in_results == 1 instead of the derived flag
with_response_mention_eq_one(rs) ==
    Cardinality({i \in 1..Len(rs) : rs[i].product_in_results = JNum(1)})

\* line 233
with_response_mention_of(rs) ==
    Cardinality({i \in 1..Len(rs) : rs[i].brand_in_response})

generate_summary_stats(rs) ==
    LET total == Len(rs)
        with_response_mention == with_response_mention_of(rs)
        mentioned_group == SelectSeq(rs, LAMBDA r : r.brand_in_response)
        not_mentioned_group == SelectSeq(rs, LAMBDA r : ~r.brand_in_response)
    IN [total_records |-> total,
        records_with_brand_in_response |-> with_response_mention,
        records_without_brand_in_response |-> total - with_response_mention,
        avg_sources_when_mentioned |-> mean_int(mentioned_group, "total_sources"),
        avg_sources_when_not_mentioned |->
            mean_int(not_mentioned_group, "total_sources"),
        avg_brand_sources_when_mentioned |->
            mean_int(mentioned_group, "sources_with_brand"),
        avg_brand_sources_when_not_mentioned |->
            mean_int(not_mentioned_group, "sources_with_brand"),
        avg_brand_pct_when_mentioned |->
            mean_float(mentioned_group, "brand_mention_percentage"),
        avg_brand_pct_when_not_mentioned |->
            mean_float(not_mentioned_group, "brand_mention_percentage")]

NoSummary == [total_records |-> -1]

----------------------------------------------------------------------------
(* Raw records and API responses the inputs are drawn from *)

RawRecord(pir, payload) == JDict([product_in_results |-> pir, resources |-> payload])

\* one record per payload shape and mention flag
FullRecords ==
    {RawRecord(JNum(v), p) : v \in {0, 1}, p \in Payloads}
    \cup {JDict([id |-> JNum(1)])}

\* a few records, one per behaviour of the filter and the enricher
SampleRecords ==
    {RawRecord(JNum(1), JDict([resources |-> JList(<<CiteMentioned>>)])),
     RawRecord(JNum(0), CiteNotMentioned),
     RawRecord(JNum(0), JList(<<JNum(7)>>)),
     RawRecord(JBool(TRUE), JList(<<CiteNumUrl, JNum(7), CiteMentioned>>)),
     RawRecord(JNum(0), JStr("not json")),
     RawRecord(JNum(1), JNull)}

\* the record lists: every short list of sample records, and every record alone
RecordLists ==
    SeqsUpTo(SampleRecords, MaxRecords) \cup {<<r>> : r \in FullRecords}

\* decoded response bodies: the envelope around a record list, and bodies of
\* every other JSON type
Bodies ==
    {JDict([data |-> JList(rs)]) : rs \in RecordLists}
    \cup {JDict([data |-> JNull]), JDict([data |-> JNum(7)]),
          JDict([data |-> JBool(TRUE)]), JDict([data |-> JStr("oops")]),
          JDict([data |-> JDict([error |-> JStr("denied")])]),
          JDict([data |-> JList(<<JNum(7)>>)]),
          JDict([data |-> JList(<<RawRecord(JNum(1), CiteMentioned), JStr("x")>>)]),
          JDict(EmptyKV), JDict([error |-> JStr("denied")]),
          JList(<<RawRecord(JNum(1), CiteMentioned)>>), JList(<< >>),
          JStr("ok"), JNum(7), JNull}

\* what urlopen + json.loads can do, lines 59-60
NetOutcomes ==
    {[kind |-> k, body |-> JNull] :
        k \in {"transport", "timeout", "http_error", "undecodable"}}
    \cup {[kind |-> "ok", body |-> b] : b \in Bodies}

----------------------------------------------------------------------------
(* api_call, lines 41-72 *)

\* the return value; None stands for every reported failure
api_call(key, net) ==
    IF key = "" THEN JNull                        \* lines 45-47
    ELSE IF net.kind # "ok" THEN JNull            \* lines 62-72
    ELSE IF net.body.t = "dict"
         THEN Get(net.body, "data", net.body)     \* line 61
         ELSE JNull                               \* AttributeError, caught at line 70

\* api_call with the request sent before the key is looked at
api_call_requests_unchecked(key) == 1

\* urlopen calls issued by one api_call: none before the key check passes
api_call_requests(key) == IF key = "" THEN 0 ELSE 1

----------------------------------------------------------------------------
(* fetch_queries_execution_data, lines 107-144 *)

\* lines 133-137: the test that keeps a record
has_sources(record) ==
    LET resources_raw == Get(record, "resources", JNull)
    IN Truthy(resources_raw) /\ Len(parse_resources(resources_raw)) > 0

\* the exception raised by lines 128-138 on `data`, here `returned`, or "none"
fetch_fault(returned) ==
    IF ~Truthy(returned) THEN "none"
    ELSE CASE returned.t \in {"num", "bool"} -> "TypeError"        \* len(returned), line 128
           [] returned.t \in {"str", "dict"} -> "AttributeError"   \* str.get, line 133
           [] returned.t = "list" ->
                IF \E i \in 1..Len(returned.items) : returned.items[i].t # "dict"
                THEN "AttributeError"                          \* line 133
                ELSE "none"

\* the returned list (when no exception is raised)
fetch_result(returned) ==
    IF Truthy(returned) /\ returned.t = "list"
    THEN SelectSeq(returned.items, has_sources)
    ELSE << >>                                                 \* lines 142-144

\* how the fetch went, for the claims: the failure, or the kind of success
fetch_kind_of(key, net) ==
    LET returned == api_call(key, net)
    IN IF key = "" THEN "no_credential"
       ELSE IF net.kind # "ok" THEN net.kind
       ELSE IF net.body.t = "dict" /\ returned.t = "list"
                 /\ \A i \in 1..Len(returned.items) : returned.items[i].t = "dict"
            THEN IF returned.items = << >> THEN "ok_zero_records"
                 ELSE IF fetch_result(returned) = << >> THEN "ok_all_dropped"
                 ELSE "ok_records"
            ELSE "ok_other_body"

FetchErrors == {"no_credential", "transport", "timeout", "http_error", "undecodable"}
EmptyResults == {"ok_zero_records", "ok_all_dropped"}

----------------------------------------------------------------------------
(* save_results, lines 294-332 *)

Artifacts == {"full", "summary", "csv"}
NoFiles == [a \in Artifacts |-> "absent"]

\* where a write can fail; open(path, 'w') creates the file before any write
SaveFailures ==
    {"none", "makedirs", "open_full", "write_full", "open_summary",
     "write_summary", "open_csv", "write_csv"}

\* save_results with each write wrapped so that a failed summary write is
\* skipped and the CSV is still written
save_results_skip_failed_summary(failure) ==
    CASE failure \in {"makedirs", "open_full"} -> NoFiles
      [] failure = "write_full" -> [NoFiles EXCEPT !["full"] = "partial"]
      [] failure = "open_summary" ->
            [full |-> "written", summary |-> "absent", csv |-> "written"]
      [] failure = "write_summary" ->
            [full |-> "written", summary |-> "partial", csv |-> "written"]
      [] failure = "open_csv" ->
            [NoFiles EXCEPT !["full"] = "written", !["summary"] = "written"]
      [] failure = "write_csv" ->
            [full |-> "written", summary |-> "written", csv |-> "partial"]
      [] failure = "none" -> [a \in Artifacts |-> "written"]

\* the files on disk when save_results returns or raises at `failure`
save_results(failure) ==
    CASE failure \in {"makedirs", "open_full"} -> NoFiles
      [] failure = "write_full" -> [NoFiles EXCEPT !["full"] = "partial"]
      [] failure = "open_summary" -> [NoFiles EXCEPT !["full"] = "written"]
      [] failure = "write_summary" ->
            [NoFiles EXCEPT !["full"] = "written", !["summary"] = "partial"]
      [] failure = "open_csv" ->
            [NoFiles EXCEPT !["full"] = "written", !["summary"] = "written"]
      [] failure = "write_csv" ->
            [full |-> "written", summary |-> "written", csv |-> "partial"]
      [] failure = "none" -> [a \in Artifacts |-> "written"]

----------------------------------------------------------------------------
(* main, lines 335-390 *)

NoRun == [kind |-> "none", outcome |-> "none"]

Init ==
    /\ pc = "main"
    /\ API_KEY \in {"", "secret"}
    /\ requests = 0
    /\ fetch_kind = "none"
    /\ data = JNull
    /\ queries_execution_data = << >>
    /\ analyzed_data = << >>
    /\ summary = NoSummary
    /\ files = NoFiles
    /\ executed = {}
    /\ fault = "none"
    /\ outcome = "running"
    /\ previous_run = NoRun

\* line 344: the call of fetch_queries_execution_data, api_call included
Fetch ==
    /\ pc = "main"
    /\ \E net \in NetOutcomes :
         LET returned == api_call(API_KEY, net)
             raised == fetch_fault(returned)
         IN /\ data' = returned
            /\ requests' = requests + api_call_requests(API_KEY)
            /\ fetch_kind' = fetch_kind_of(API_KEY, net)
            /\ executed' = executed \cup {"fetch_queries_execution_data"}
            /\ IF raised # "none"
               THEN /\ fault' = raised
                    /\ outcome' = "fault"
                    /\ pc' = "done"
                    /\ UNCHANGED queries_execution_data
               ELSE /\ queries_execution_data' = fetch_result(returned)
                    /\ pc' = "fetched"
                    /\ UNCHANGED <<fault, outcome>>
    /\ UNCHANGED <<API_KEY, analyzed_data, summary, files, previous_run>>

\* line 346 testing `is None`: fetch returns a list, so main never aborts
main_aborts_none_test(fetched) == FALSE

\* line 346: `if not queries_execution_data`
main_aborts(fetched) == fetched = << >>

\* lines 346-348
AbortNoData ==
    /\ pc = "fetched"
    /\ main_aborts(queries_execution_data)
    /\ outcome' = "no_data"
    /\ pc' = "done"
    /\ UNCHANGED <<API_KEY, requests, fetch_kind, data, queries_execution_data,
                   analyzed_data, summary, files, executed, fault, previous_run>>

\* lines 350-356: print_sample_resources (console only), then analyze_data
Analyze ==
    /\ pc = "fetched"
    /\ ~main_aborts(queries_execution_data)
    /\ analyzed_data' = analyze_data(queries_execution_data)
    /\ executed' = executed \cup {"analyze_data"}
    /\ pc' = "analyzed"
    /\ UNCHANGED <<API_KEY, requests, fetch_kind, data, queries_execution_data,
                   summary, files, fault, outcome, previous_run>>

\* lines 358-377: generate_summary_stats, then the printed report, which
\* divides by summary['total_records'] (lines 366-367)
Summarize ==
    /\ pc = "analyzed"
    /\ summary' = generate_summary_stats(analyzed_data)
    /\ executed' = executed \cup {"generate_summary_stats"}
    /\ IF summary'.total_records = 0
       THEN fault' = "ZeroDivisionError" /\ outcome' = "fault" /\ pc' = "done"
       ELSE pc' = "summarized" /\ UNCHANGED <<fault, outcome>>
    /\ UNCHANGED <<API_KEY, requests, fetch_kind, data, queries_execution_data,
                   analyzed_data, files, previous_run>>

\* lines 379-390: save_results; an OSError of makedirs/open/write is not caught
Save ==
    /\ pc = "summarized"
    /\ \E failure \in SaveFailures :
         /\ files' = save_results(failure)
         /\ IF failure = "none"
            THEN outcome' = "complete" /\ UNCHANGED fault
            ELSE outcome' = "fault" /\ fault' = "OSError"
    /\ executed' = executed \cup {"save_results"}
    /\ pc' = "done"
    /\ UNCHANGED <<API_KEY, requests, fetch_kind, data, queries_execution_data,
                   analyzed_data, summary, previous_run>>

\* lines 393-394: the script is started again; its files carry a new timestamp
NewRun ==
    /\ pc = "done"
    /\ previous_run' = [kind |-> fetch_kind, outcome |-> outcome]
    /\ pc' = "main"
    /\ API_KEY' \in {"", "secret"}
    /\ requests' = 0
    /\ fetch_kind' = "none"
    /\ data' = JNull
    /\ queries_execution_data' = << >>
    /\ analyzed_data' = << >>
    /\ summary' = NoSummary
    /\ files' = NoFiles
    /\ executed' = {}
    /\ fault' = "none"
    /\ outcome' = "running"

Next == Fetch \/ AbortNoData \/ Analyze \/ Summarize \/ Save \/ NewRun

Spec == Init /\ [][Next]_vars

----------------------------------------------------------------------------
(* The enricher and the aggregator applied directly to any record list *)

UnitInit ==
    /\ pc = "unit"
    /\ queries_execution_data \in RecordLists
    /\ API_KEY = "secret"
    /\ requests = 0
    /\ fetch_kind = "none"
    /\ data = JNull
    /\ analyzed_data = << >>
    /\ summary = NoSummary
    /\ files = NoFiles
    /\ executed = {}
    /\ fault = "none"
    /\ outcome = "running"
    /\ previous_run = NoRun

UnitAnalyze ==
    /\ pc = "unit"
    /\ analyzed_data' = analyze_data(queries_execution_data)
    /\ executed' = executed \cup {"analyze_data"}
    /\ pc' = "unit_analyzed"
    /\ UNCHANGED <<API_KEY, requests, fetch_kind, data, queries_execution_data,
                   summary, files, fault, outcome, previous_run>>

UnitSummarize ==
    /\ pc = "unit_analyzed"
    /\ summary' = generate_summary_stats(analyzed_data)
    /\ executed' = executed \cup {"generate_summary_stats"}
    /\ pc' = "unit_done"
    /\ UNCHANGED <<API_KEY, requests, fetch_kind, data, queries_execution_data,
                   analyzed_data, files, fault, outcome, previous_run>>

UnitNext == UnitAnalyze \/ UnitSummarize

UnitSpec == UnitInit /\ [][UnitNext]_vars

----------------------------------------------------------------------------
(* Claims about the enricher and the aggregator, checked under UnitSpec *)

Analyzed == {analyzed_data[i] : i \in 1..Len(analyzed_data)}

BrandFlagged(details) ==
    {j \in 1..Len(details) : details[j].is_customer_mentioned = JBool(TRUE)}

\* C1: every enriched record has total_sources equal to the number of entries
\* of sources_details (the mappings of the payload) and sources_with_brand
\* equal to the number of entries whose brand-mention flag is true.
C1_TotalSourcesIsCitationCount ==
    \A r \in Analyzed :
        /\ r.total_sources = Len(r.sources_details)
        /\ r.sources_with_brand = Cardinality(BrandFlagged(r.sources_details))

\* C6: every entry of sources_details has a string url, a string domain and
\* a boolean brand-mention flag.
C6_CanonicalFieldTypes ==
    \A r \in Analyzed :
        \A j \in 1..Len(r.sources_details) :
            /\ r.sources_details[j].url.t = "str"
            /\ r.sources_details[j].domain.t = "str"
            /\ r.sources_details[j].is_customer_mentioned.t = "bool"

\* C7: in every enriched record 0 <= sources_with_brand <= total_sources and
\* 0 <= brand_mention_percentage <= 100; the percentage is 0 when
\* total_sources is 0 and sources_with_brand / total_sources * 100 otherwise.
C7_CountsAndPercentage ==
    \A r \in Analyzed :
        LET pct == r.brand_mention_percentage
        IN /\ 0 <= r.sources_with_brand
           /\ r.sources_with_brand <= r.total_sources
           /\ FloatLE(FloatZero, pct)
           /\ FloatLE(pct, FloatFromInt(100))
           /\ r.total_sources = 0 => pct = FloatZero
           /\ r.total_sources > 0 =>
                pct = FloatMulInt(IntTrueDiv(r.sources_with_brand, r.total_sources), 100)

\* C7 witness: one call enriched a record without sources and a record in
\* which some but not all sources mention the brand.
C7_Witness ==
    /\ pc = "unit_analyzed"
    /\ \E r \in Analyzed : r.total_sources = 0
    /\ \E r \in Analyzed :
         0 < r.sources_with_brand /\ r.sources_with_brand < r.total_sources

\* the dispatch of section 4.2 on a decoded (non-string) value
C8_ShapeRule(v) ==
    CASE v.t = "dict" /\ "resources" \in DOMAIN v.kv ->
            IF v.kv["resources"].t = "list" THEN v.kv["resources"].items ELSE << >>
      [] v.t = "dict" /\ "resources" \notin DOMAIN v.kv -> <<v>>
      [] v.t = "list" -> v.items
      [] OTHER -> << >>

C8_PayloadRule(p) ==
    IF p.t = "str"
    THEN IF json_loads(p.s).ok THEN C8_ShapeRule(json_loads(p.s).v) ELSE << >>
    ELSE C8_ShapeRule(p)

\* C8 as stated: parse_resources follows the shape rules for every payload,
\* the empty mapping giving a one-element sequence holding it.
C8_DispatchAsStated ==
    \A r \in Analyzed : r.resources_parsed = C8_PayloadRule(r.resources_raw)

\* C8 amended: parse_resources follows the shape rules for every payload
\* except the empty mapping passed directly, which gives the empty sequence
\* (a string that decodes to the empty mapping still gives one element).
C8_DispatchAmended ==
    \A r \in Analyzed :
        r.resources_parsed =
            IF r.resources_raw = JDict(EmptyKV)
            THEN << >>
            ELSE C8_PayloadRule(r.resources_raw)

\* C8 witness: the empty mapping was parsed to the empty sequence.
C8_Witness ==
    /\ pc = "unit_analyzed"
    /\ \E r \in Analyzed :
         r.resources_raw = JDict(EmptyKV) /\ r.resources_parsed = << >>

\* C10: the two group counts of the summary are the sizes of the groups of
\* records with and without brand_in_response, and they sum to total_records,
\* the number of records given.
C10_PartitionCounts ==
    summary # NoSummary =>
        LET with == {i \in 1..Len(analyzed_data) : analyzed_data[i].brand_in_response}
            without == {i \in 1..Len(analyzed_data) : ~analyzed_data[i].brand_in_response}
        IN /\ summary.records_with_brand_in_response = Cardinality(with)
           /\ summary.records_without_brand_in_response = Cardinality(without)
           /\ summary.total_records = Len(analyzed_data)
           /\ summary.records_with_brand_in_response
                + summary.records_without_brand_in_response = summary.total_records

\* C10 witness: a summary over records of both groups.
C10_Witness ==
    /\ pc = "unit_done"
    /\ summary.records_with_brand_in_response >= 1
    /\ summary.records_without_brand_in_response >= 1

----------------------------------------------------------------------------
(* Claims about the pipeline, checked under Spec *)

\* the CitationRecords a payload normalizes to (section 4.2)
Citations(payload) == sources_details_of(parse_resources(payload))

Kept == {queries_execution_data[i] : i \in 1..Len(queries_execution_data)}

\* C2: once the filter has run, a fetched record is among the kept records
\* if and only if its resources field is truthy and normalizes to at least
\* one CitationRecord; no enriched record has an empty citation sequence.
C2_KeptIffHasCitations ==
    /\ (pc # "main" /\ fault = "none" /\ data.t = "list") =>
         \A i \in 1..Len(data.items) :
             LET payload == Get(data.items[i], "resources", JNull)
             IN data.items[i] \in Kept
                  <=> (Truthy(payload) /\ Len(Citations(payload)) >= 1)
    /\ \A r \in Analyzed : r.sources_details # << >>

\* C3: a run whose fetch failed and a run whose fetch legitimately gave no
\* data (zero records, or all records dropped) never end in the same outcome
\* of main(); compared on two consecutive runs.
C3_ErrorDistinctFromNoData ==
    (pc = "done" /\ previous_run # NoRun) =>
        /\ (previous_run.kind \in FetchErrors /\ fetch_kind \in EmptyResults)
             => outcome # previous_run.outcome
        /\ (previous_run.kind \in EmptyResults /\ fetch_kind \in FetchErrors)
             => outcome # previous_run.outcome

AllWritten == \A a \in Artifacts : files[a] = "written"
NoneWritten == \A a \in Artifacts : files[a] # "written"

\* C4 as stated: whenever a run has ended, normally or by a failure at any
\* step, either all three artifacts have been written or none has.
C4_AllOrNothing == pc = "done" => (AllWritten \/ NoneWritten)

\* C4 amended: a run that ended normally has written all three artifacts; a
\* run that ended before save_results (fetch failure, no data, a fault of the
\* fetch stage) has created none; a run ended by a write failure inside
\* save_results leaves exactly the artifacts preceding the failing one
\* written (order: full data, summary, CSV), never all three.
C4_AllOrNoneOrPrefix ==
    pc = "done" =>
        /\ outcome = "complete" => AllWritten
        /\ (outcome = "no_data" \/ fault \in {"TypeError", "AttributeError"})
             => files = NoFiles
        /\ fault = "OSError" =>
             /\ files["csv"] # "written"
             /\ files["summary"] # "absent" => files["full"] = "written"
             /\ files["csv"] # "absent" => files["summary"] = "written"

\* C4 witness: a run ended by a write failure after the first artifact.
C4_Witness ==
    /\ pc = "done"
    /\ fault = "OSError"
    /\ files["full"] = "written"
    /\ files["csv"] = "absent"

\* C5: whatever decoded body api_call accepts, the fetch stage never ends the
\* run by an unhandled exception.
C5_NoUnhandledFetchFault ==
    fetch_kind \notin FetchErrors => fault \notin {"TypeError", "AttributeError"}

\* C9: once the fetch stage has failed, main() calls no later stage and
\* writes no file: the run aborts with the no-data outcome.
C9_FetchFailureAborts ==
    fetch_kind \in FetchErrors =>
        /\ executed = {"fetch_queries_execution_data"}
        /\ files = NoFiles
        /\ pc \in {"fetched", "done"}
        /\ pc = "done" => outcome = "no_data"

\* C9 witness: a run ended after an undecodable response body.
C9_Witness ==
    /\ pc = "done"
    /\ fetch_kind = "undecodable"
    /\ requests = 1
    /\ outcome = "no_data"

----------------------------------------------------------------------------
(* Claims about the group means (UnitSpec) and the network call (Spec) *)

Group(flag) ==
    {i \in 1..Len(analyzed_data) : analyzed_data[i].brand_in_response = flag}

\* sum of an int field over a set of records of analyzed_data, in no order
RECURSIVE SetSum(_, _)
SetSum(idx, field) ==
    IF idx = {} THEN 0
    ELSE LET i == CHOOSE j \in idx : TRUE
         IN analyzed_data[i][field] + SetSum(idx \ {i}, field)

Reorderings(n) ==
    {f \in [1..n -> 1..n] : \A i, j \in 1..n : f[i] = f[j] => i = j}

Permuted(rs, f) == [i \in 1..Len(rs) |-> rs[f[i]]]

\* all three means of an empty group are 0
C11_EmptyGroupZero ==
    /\ Group(TRUE) = {} =>
         /\ summary.avg_sources_when_mentioned = FloatZero
         /\ summary.avg_brand_sources_when_mentioned = FloatZero
         /\ summary.avg_brand_pct_when_mentioned = FloatZero
    /\ Group(FALSE) = {} =>
         /\ summary.avg_sources_when_not_mentioned = FloatZero
         /\ summary.avg_brand_sources_when_not_mentioned = FloatZero
         /\ summary.avg_brand_pct_when_not_mentioned = FloatZero

\* the means of the two count fields are the group's sum over its size
C11_CountMeans ==
    /\ Group(TRUE) # {} =>
         /\ summary.avg_sources_when_mentioned =
              IntTrueDiv(SetSum(Group(TRUE), "total_sources"),
                         Cardinality(Group(TRUE)))
         /\ summary.avg_brand_sources_when_mentioned =
              IntTrueDiv(SetSum(Group(TRUE), "sources_with_brand"),
                         Cardinality(Group(TRUE)))
    /\ Group(FALSE) # {} =>
         /\ summary.avg_sources_when_not_mentioned =
              IntTrueDiv(SetSum(Group(FALSE), "total_sources"),
                         Cardinality(Group(FALSE)))
         /\ summary.avg_brand_sources_when_not_mentioned =
              IntTrueDiv(SetSum(Group(FALSE), "sources_with_brand"),
                         Cardinality(Group(FALSE)))

\* the summary of every permutation of the records is the summary returned
C11_SameForEveryPermutation ==
    \A f \in Reorderings(Len(analyzed_data)) :
        generate_summary_stats(Permuted(analyzed_data, f)) = summary

\* C11: the summary holds, for each brand_in_response group, the arithmetic
\* mean of total_sources, sources_with_brand and brand_mention_percentage,
\* 0 for an empty group, and is the same for every permutation of the input.
C11_GroupMeansOrderIndependent ==
    summary # NoSummary =>
        /\ C11_EmptyGroupZero
        /\ C11_CountMeans
        /\ C11_SameForEveryPermutation

\* C12: no urlopen call is issued in a run whose API_KEY is empty; a run
\* with a credential issues exactly one, in the fetch, and never another.
C12_NoRequestWithoutCredential ==
    /\ API_KEY = "" => requests = 0
    /\ API_KEY # "" => requests = (IF pc = "main" THEN 0 ELSE 1)

\* C12 witness: a run without credential ended without any request, after a
\* run that had issued its request and failed in transport.
C12_Witness ==
    /\ pc = "done"
    /\ API_KEY = ""
    /\ fetch_kind = "no_credential"
    /\ requests = 0
    /\ previous_run.kind = "transport"

====
